---- MODULE Spec2Model ----
(***************************************************************************)
(* Model of src/app.py: the Flask video thumbnail / metadata service.      *)
(*                                                                         *)
(* Strings that the code builds or takes apart are sequences of tokens, so *)
(* that f-string interpolation is concatenation and str.split is a real    *)
(* split.  Python exceptions are values: every function result carries an  *)
(* "exc" field naming the exception that left the function ("none" when it *)
(* returned).                                                              *)
(***************************************************************************)
EXTENDS Integers, Sequences, FiniteSets, TLC

VARIABLES fs, served, last, probeIn, probeOut

vars == <<fs, served, last, probeIn, probeOut>>

(***************************************************************************)
(* Bounds of the model.                                                    *)
(***************************************************************************)
MaxDur == 2
MaxNum == 2
MaxDen == 2
MaxStreams == 2

(***************************************************************************)
(* Python values.                                                          *)
(***************************************************************************)
\* Python's None where a string (token sequence) is expected.
None == <<"<None>">>

\* Truthiness of an optional string: None and "" are falsy.
Truthy(s) == s # None /\ s # <<>>

\* A piece of text that may spell a number: an integer literal or a word.
IntText(n) == [t |-> "int", v |-> n, w |-> ""]
WordText(word) == [t |-> "word", v |-> 0, w |-> word]
Slash == [t |-> "slash", v |-> 0, w |-> "/"]
NoText == [t |-> "absent", v |-> 0, w |-> ""]

\* Python floats: finite values (integers stand for them), the infinities, NaN.
Fin(n) == [k |-> "fin", v |-> n]
NaN == [k |-> "nan", v |-> 0]
PosInf == [k |-> "inf", v |-> 1]
NegInf == [k |-> "inf", v |-> -1]
NoFloat == [k |-> "none", v |-> 0]

\* float(text): the parsed value, or NoFloat where Python raises ValueError.
ParseFloat(x) ==
    IF x.t = "int" THEN Fin(x.v)
    ELSE IF x.t = "word" /\ x.w = "nan" THEN NaN
    ELSE IF x.t = "word" /\ x.w = "inf" THEN PosInf
    ELSE IF x.t = "word" /\ x.w = "-inf" THEN NegInf
    ELSE NoFloat

\* a < b on Python floats: every comparison with NaN is False.
FloatLt(a, b) ==
    IF a.k = "nan" \/ b.k = "nan" THEN FALSE
    ELSE IF a.k = "inf" THEN a.v = -1 /\ ~(b.k = "inf" /\ b.v = -1)
    ELSE IF b.k = "inf" THEN b.v = 1
    ELSE a.v < b.v

\* str.split(sep): the parts between the occurrences of sep.  cur is the
\* part being read, from position i on.
RECURSIVE SplitFrom(_, _, _, _)
SplitFrom(s, sep, i, cur) ==
    IF i > Len(s) THEN <<cur>>
    ELSE IF s[i] = sep THEN <<cur>> \o SplitFrom(s, sep, i + 1, <<>>)
    ELSE SplitFrom(s, sep, i + 1, Append(cur, s[i]))

Split(s, sep) == SplitFrom(s, sep, 1, <<>>)

(***************************************************************************)
(* The filesystem: the regular files and the directories that exist, each  *)
(* a normalised path relative to the working directory (a sequence of      *)
(* names, a name being a token sequence).                                  *)
(***************************************************************************)
StaticDir == <<<<"static">>>>
CacheDir == <<<<"static">>, <<"cache">>>>

\* os.path.exists: the walk of a relative path, component by component.
\* cur is the directory reached so far; ".." steps to its parent, any other
\* name must exist, and every name but the last must be a directory.
RECURSIVE Walk(_, _, _)
Walk(cur, parts, f) ==
    IF parts = <<>> THEN TRUE
    ELSE LET name == Head(parts)
             rest == Tail(parts)
         IN IF name = <<>> \/ name = <<".">> THEN Walk(cur, rest, f)
            ELSE IF name = <<"..">>
                 THEN Walk(IF cur = <<>> THEN cur ELSE SubSeq(cur, 1, Len(cur) - 1),
                           rest, f)
            ELSE LET nxt == Append(cur, name)
                 IN IF nxt \in f.dirs THEN Walk(nxt, rest, f)
                    ELSE nxt \in f.files /\ rest = <<>>

PathExists(path, f) == path # <<>> /\ Walk(<<>>, Split(path, "/"), f)

\* The normalised location a path names: what os.path.normpath gives.
RECURSIVE Normalise(_, _)
Normalise(cur, parts) ==
    IF parts = <<>> THEN cur
    ELSE LET name == Head(parts)
         IN IF name = <<>> \/ name = <<".">> THEN Normalise(cur, Tail(parts))
            ELSE IF name = <<"..">>
                 THEN Normalise(IF cur = <<>> THEN cur
                                ELSE SubSeq(cur, 1, Len(cur) - 1), Tail(parts))
            ELSE Normalise(Append(cur, name), Tail(parts))

Location(path) == Normalise(<<>>, Split(path, "/"))

(***************************************************************************)
(* get_video_path                                                          *)
(***************************************************************************)
VIDEO_PATH == <<"static", "/", "video", ".mp4">>

CachePath(video_id) ==
    <<"static", "/", "cache", "/", "cached_">> \o video_id \o <<".mp4">>

\* Lines 23-30 without the existence check of line 27.
get_video_path_unchecked(video_id, f) ==
    IF ~Truthy(video_id) THEN VIDEO_PATH ELSE CachePath(video_id)

get_video_path(video_id, f) ==
    IF ~Truthy(video_id) THEN VIDEO_PATH
    ELSE IF PathExists(CachePath(video_id), f) THEN CachePath(video_id)
    ELSE None

(***************************************************************************)
(* get_video_metadata                                                      *)
(***************************************************************************)
\* dict.get(key, default)
Get(d, key, default) == IF key \in DOMAIN d THEN d[key] ELSE default

\* A rational value of a float quotient, in lowest terms.
RECURSIVE GCD(_, _)
GCD(a, b) == IF b = 0 THEN a ELSE GCD(b, a % b)

Quotient(n, d) ==
    LET g == GCD(n, d) IN [num |-> n \div g, den |-> d \div g]

ZeroRate == [num |-> 0, den |-> 1]

NoMeta == [codec |-> "", width |-> 0, height |-> 0,
           duration |-> NoFloat, framerate |-> ZeroRate]

Raise(e, m) == [exc |-> e, msg |-> m, meta |-> NoMeta]

\* The default of video_stream.get('r_frame_rate', '0/0').
DefaultRate == <<IntText(0), Slash, IntText(0)>>

\* float() of one part of the split frame-rate text.
PartFloat(part) == IF Len(part) = 1 THEN ParseFloat(part[1]) ELSE NoFloat

\* Lines 43-46: the position of the first stream for which
\* stream['codec_type'] == 'video' is true; 0 when the generator is exhausted
\* (next() gives None); -1 when a stream looked at on the way has no
\* 'codec_type' key (KeyError).
RECURSIVE FirstVideoFrom(_, _)
FirstVideoFrom(streams, i) ==
    IF i > Len(streams) THEN 0
    ELSE IF "codec_type" \notin DOMAIN streams[i] THEN -1
    ELSE IF streams[i]["codec_type"] = "video" THEN i
    ELSE FirstVideoFrom(streams, i + 1)

FirstVideo(streams) == FirstVideoFrom(streams, 1)

\* The value of a float division that is not finite (a NaN or an infinity
\* among the operands).
NonFiniteRate == [num |-> 0, den |-> 0]

\* Line 56 with the zero test left out: the plain division.
FramerateUnguarded(num, den) ==
    IF den = Fin(0) THEN [exc |-> "ZeroDivisionError", rate |-> ZeroRate]
    ELSE IF num.k = "fin" /\ den.k = "fin"
         THEN [exc |-> "none", rate |-> Quotient(num.v, den.v)]
    ELSE [exc |-> "none", rate |-> NonFiniteRate]

\* Line 56: float(num) / float(den) if float(den) != 0 else 0.0
Framerate(num, den) ==
    IF den # Fin(0)
    THEN IF num.k = "fin" /\ den.k = "fin"
         THEN [exc |-> "none", rate |-> Quotient(num.v, den.v)]
         ELSE [exc |-> "none", rate |-> NonFiniteRate]
    ELSE [exc |-> "none", rate |-> ZeroRate]

\* probe is the outcome of ffmpeg.probe(video_path): failed (ffmpeg.Error) or
\* the dictionary it returned.
get_video_metadata(probe) ==
    IF probe.failed THEN Raise("ffmpeg.Error", "ffprobe error")
    ELSE LET v == FirstVideo(probe.streams) IN
    IF v = -1 THEN Raise("KeyError", "codec_type")
    ELSE IF v = 0 THEN Raise("ProbeError", "No video stream found")
    ELSE LET video_stream == probe.streams[v]
             codec == Get(video_stream, "codec_name", "unknown")
             width == Get(video_stream, "width", 0)
             height == Get(video_stream, "height", 0)
         IN
    IF "duration" \notin DOMAIN probe.format THEN Raise("KeyError", "duration")
    ELSE LET duration == ParseFloat(probe.format["duration"]) IN
    IF duration = NoFloat THEN Raise("ValueError", "duration")
    ELSE LET r_frame_rate == Get(video_stream, "r_frame_rate", DefaultRate)
             parts == Split(r_frame_rate, Slash)
         IN
    IF Len(parts) # 2 THEN Raise("ValueError", "unpack")
    ELSE LET num == PartFloat(parts[1])
             den == PartFloat(parts[2])
         IN
    IF den = NoFloat THEN Raise("ValueError", "float")
    ELSE IF den # Fin(0) /\ num = NoFloat THEN Raise("ValueError", "float")
    ELSE LET fr == Framerate(num, den) IN
    IF fr.exc # "none" THEN Raise(fr.exc, "division")
    ELSE [exc |-> "none", msg |-> "",
          meta |-> [codec |-> codec, width |-> width, height |-> height,
                    duration |-> duration, framerate |-> fr.rate]]

(***************************************************************************)
(* Requests and responses.                                                 *)
(***************************************************************************)
\* A response: the status, the content type ("unhandled" is the response
\* Flask makes of an exception that left the view function), the keys of a
\* JSON body, its 'error' and 'message'/'details' texts, its 'video_id'.
Resp(status, type, keys, error, detail) ==
    [status |-> status, type |-> type, keys |-> keys, error |-> error,
     detail |-> detail, video_id |-> None]

NoResp == Resp(0, "", {}, "", "")

Json(status, keys, error, detail) == Resp(status, "json", keys, error, detail)

Unhandled(exc) == Resp(500, "unhandled", {}, "Internal Server Error", exc)

NotFound == Json(404, {"error"}, "Cached video not found for video_id", "")

ProbeFailed(msg) ==
    Json(500, {"error", "message"}, "Unable to retrieve video metadata", msg)

\* No download was made.
NoDownload == [failed |-> FALSE, id |-> None, merged |-> FALSE, ext |-> ""]

\* What is recorded of the request handled last: the arguments the handler
\* read, the values it computed, the capabilities it invoked (in order), and
\* the response.
Base ==
    [op |-> "", video_id |-> None, path |-> None, ts |-> NoFloat,
     probe_exc |-> "", duration |-> NoFloat, extract |-> "", calls |-> <<>>,
     resp |-> NoResp, meta |-> NoMeta, url |-> None, dl |-> NoDownload]

\* request.args.get('timestamp', type=float): None when the argument is
\* missing or float() raises ValueError.
ArgFloat(raw) == IF raw = NoText THEN NoFloat ELSE ParseFloat(raw)

(***************************************************************************)
(* GET /metadata                                                           *)
(***************************************************************************)
metadata(video_id, probe, f) ==
    LET video_path == get_video_path(video_id, f)
        b1 == [Base EXCEPT !.op = "metadata", !.video_id = video_id,
                           !.path = video_path, !.calls = <<"resolve">>]
    IN
    IF Truthy(video_id) /\ video_path = None THEN [b1 EXCEPT !.resp = NotFound]
    ELSE LET m == get_video_metadata(probe)
             b2 == [b1 EXCEPT !.probe_exc = m.exc, !.duration = m.meta.duration,
                              !.meta = m.meta, !.calls = <<"resolve", "probe">>]
         IN
    IF m.exc = "ProbeError" THEN [b2 EXCEPT !.resp = ProbeFailed(m.msg)]
    ELSE IF m.exc # "none" THEN [b2 EXCEPT !.resp = Unhandled(m.exc)]
    ELSE [b2 EXCEPT !.resp = Json(200, {"codec", "width", "height", "duration",
                                        "framerate"}, "", "")]

(***************************************************************************)
(* GET /thumbnail                                                          *)
(***************************************************************************)
\* Lines 104-105: timestamp < 0 or timestamp > meta['duration']
OutOfBounds(timestamp, duration) ==
    FloatLt(timestamp, Fin(0)) \/ FloatLt(duration, timestamp)

\* Lines 107-117 with a second attempt after a failed run.
thumbnail_extract_retry(b2, ex) ==
    IF ex = "ok"
    THEN [b2 EXCEPT !.extract = ex, !.calls = Append(@, "extract"),
                    !.resp = Resp(200, "image/png", {}, "", "")]
    ELSE [b2 EXCEPT !.extract = ex, !.calls = @ \o <<"extract", "extract">>,
                    !.resp = Json(500, {"error", "details"},
                                  "Error generating thumbnail", ex)]

\* Lines 107-117: the ffmpeg run and the response made of its outcome ex,
\* "ok" or "ffmpeg.Error".
thumbnail_extract(b2, ex) ==
    LET b3 == [b2 EXCEPT !.extract = ex, !.calls = Append(@, "extract")] IN
    IF ex = "ok" THEN [b3 EXCEPT !.resp = Resp(200, "image/png", {}, "", "")]
    ELSE [b3 EXCEPT !.resp = Json(500, {"error", "details"},
                                  "Error generating thumbnail", ex)]

thumbnail(raw, video_id, probe, ex, f) ==
    LET timestamp == ArgFloat(raw)
        b0 == [Base EXCEPT !.op = "thumbnail", !.ts = timestamp]
    IN
    IF timestamp = NoFloat
    THEN [b0 EXCEPT !.resp = Json(400, {"error"}, "Missing timestamp parameter", "")]
    ELSE LET video_path == get_video_path(video_id, f)
             b1 == [b0 EXCEPT !.video_id = video_id, !.path = video_path,
                              !.calls = <<"resolve">>]
         IN
    IF Truthy(video_id) /\ video_path = None THEN [b1 EXCEPT !.resp = NotFound]
    ELSE LET m == get_video_metadata(probe)
             b2 == [b1 EXCEPT !.probe_exc = m.exc, !.duration = m.meta.duration,
                              !.calls = <<"resolve", "probe">>]
         IN
    IF m.exc = "ProbeError" THEN [b2 EXCEPT !.resp = ProbeFailed(m.msg)]
    ELSE IF m.exc # "none" THEN [b2 EXCEPT !.resp = Unhandled(m.exc)]
    ELSE IF OutOfBounds(timestamp, m.meta.duration)
    THEN [b2 EXCEPT !.resp = Json(400, {"error"},
                                  "Timestamp out of video duration bounds", "")]
    ELSE thumbnail_extract(b2, ex)

(***************************************************************************)
(* GET /video                                                              *)
(***************************************************************************)
serve_video(video_id, f) ==
    LET video_path == get_video_path(video_id, f)
        b1 == [Base EXCEPT !.op = "video", !.video_id = video_id,
                           !.path = video_path, !.calls = <<"resolve">>]
    IN
    IF Truthy(video_id) /\ video_path = None THEN [b1 EXCEPT !.resp = NotFound]
    ELSE IF ~PathExists(video_path, f)
    THEN [b1 EXCEPT !.resp = Unhandled("FileNotFoundError")]
    ELSE [b1 EXCEPT !.resp = Resp(200, "video/mp4", {}, "", "")]

(***************************************************************************)
(* POST /set_video                                                         *)
(***************************************************************************)
\* The file yt-dlp stores for a download, by the template of line 150,
\* 'static/cache/cached_%(id)s.%(ext)s': the extension is 'mp4' when two
\* streams were merged (merge_output_format), and the extension of the one
\* downloaded stream when the format selector fell back to 'best'.
StoredExt(dl) == IF dl.merged THEN "mp4" ELSE dl.ext

StoredFile(dl) == Append(CacheDir, <<"cached_">> \o dl.id \o <<"." \o StoredExt(dl)>>)

\* The filesystem after ydl.extract_info(youtube_url, download=True).
Downloaded(dl, f) ==
    IF dl.failed \/ ~Truthy(dl.id) THEN f
    ELSE [f EXCEPT !.files = @ \cup {StoredFile(dl)}]

\* Lines 142-159 without the test of lines 155-156.
set_video_unchecked(youtube_url, dl) ==
    LET b0 == [Base EXCEPT !.op = "set_video", !.url = youtube_url] IN
    IF ~Truthy(youtube_url)
    THEN [b0 EXCEPT !.resp = Json(400, {"error"}, "No YouTube URL provided", "")]
    ELSE LET b1 == [b0 EXCEPT !.calls = <<"download">>, !.dl = dl] IN
    IF dl.failed
    THEN [b1 EXCEPT !.resp = Json(500, {"error", "details"},
                                  "Error downloading video", "YoutubeDLError")]
    ELSE [b1 EXCEPT !.resp = [Json(200, {"message", "video_id"}, "",
                                   "Video updated successfully")
                              EXCEPT !.video_id = dl.id]]

\* youtube_url is the 'youtube_url' field of the JSON payload (None when the
\* payload has no such key); dl is the outcome of the download.
set_video(youtube_url, dl) ==
    LET b0 == [Base EXCEPT !.op = "set_video", !.url = youtube_url] IN
    IF ~Truthy(youtube_url)
    THEN [b0 EXCEPT !.resp = Json(400, {"error"}, "No YouTube URL provided", "")]
    ELSE LET b1 == [b0 EXCEPT !.calls = <<"download">>, !.dl = dl] IN
    IF dl.failed
    THEN [b1 EXCEPT !.resp = Json(500, {"error", "details"},
                                  "Error downloading video", "YoutubeDLError")]
    ELSE IF ~Truthy(dl.id)
    THEN [b1 EXCEPT !.resp = Json(400, {"error"}, "Unable to extract video id", "")]
    ELSE [b1 EXCEPT !.resp = [Json(200, {"message", "video_id"}, "",
                                   "Video updated successfully")
                              EXCEPT !.video_id = dl.id]]

(***************************************************************************)
(* The inputs the requests are drawn from.                                 *)
(***************************************************************************)
\* Sequences over S of length at most n.
RECURSIVE SeqsUpTo(_, _)
SeqsUpTo(S, n) ==
    IF n = 0 THEN {<<>>}
    ELSE LET shorter == SeqsUpTo(S, n - 1)
         IN shorter \cup {Append(q, x) : q \in shorter, x \in S}

\* An identifier that climbs out of the cache directory through a
\* directory 'cached_a'.
TraversalId == <<"a", "/", "..", "/", "..", "/", "video">>

\* The video_id query argument: missing (None) or a string.
VideoIds ==
    {None, <<>>, <<"a">>, <<"b">>, <<"..">>, <<"..", "/", "video">>,
     <<"a", "/", "..", "/", "a">>, TraversalId}

ThumbnailIds == {None, <<>>, <<"a">>}

\* The timestamp query argument: missing, or a text.
TimestampArgs ==
    {NoText, WordText("abc"), WordText("nan"), WordText("inf"), WordText("-inf")}
        \cup {IntText(n) : n \in -1..(MaxDur + 1)}

\* A dictionary with no key.
EmptyDict == [x \in {} |-> 0]

\* The text 'n/d'.
RateText(n, d) == <<IntText(n), Slash, IntText(d)>>

\* Values of r_frame_rate: the texts 'n/d', and one text without a slash.
Rates ==
    {RateText(n, d) : n \in (0..MaxNum) \cup {30}, d \in 0..MaxDen}
        \cup {RateText(25000, 1001), <<IntText(30)>>}

\* Stream descriptors: ffprobe leaves out the fields it cannot determine.
NonVideoStreams ==
    {EmptyDict,
     [codec_type |-> "audio"],
     [codec_type |-> "audio", codec_name |-> "aac", width |-> 1,
      r_frame_rate |-> RateText(0, 0)]}

VideoStreams ==
    {("codec_type" :> "video") @@ n @@ wh :
        n \in {EmptyDict, [codec_name |-> "h264"], [codec_name |-> "vp9"]},
        wh \in {EmptyDict, [width |-> 640, height |-> 480]}}

RatedStreams ==
    {[codec_type |-> "video", codec_name |-> "h264", width |-> 640,
      height |-> 480, r_frame_rate |-> r] : r \in Rates}

Streams == NonVideoStreams \cup VideoStreams \cup RatedStreams

\* The format-level fields: without a duration, with one that is no
\* number, with a zero and a non-zero duration.
Formats ==
    {EmptyDict, [duration |-> WordText("N/A")], [duration |-> IntText(0)],
     [duration |-> IntText(10)]}

ProbeFailure == [failed |-> TRUE, streams |-> <<>>, format |-> EmptyDict]

Probed(streams, format) ==
    [failed |-> FALSE, streams |-> streams, format |-> format]

\* Outcomes of ffmpeg.probe for get_video_metadata alone: the failure, and
\* the containers of at most n streams.
ProbeInputs(n) ==
    {ProbeFailure}
        \cup {Probed(q, fmt) : q \in SeqsUpTo(Streams, n), fmt \in Formats}

PlainVideo == [codec_type |-> "video", codec_name |-> "h264", width |-> 640,
               height |-> 480, r_frame_rate |-> RateText(30, 1)]

\* Outcomes of ffmpeg.probe for the request handlers: one of each kind of
\* failure, and a good container of every duration.
HandlerProbes ==
    {ProbeFailure,
     Probed(<<[codec_type |-> "audio"]>>, [duration |-> IntText(1)]),
     Probed(<<EmptyDict, PlainVideo>>, [duration |-> IntText(1)]),
     Probed(<<PlainVideo>>, EmptyDict)}
        \cup {Probed(<<PlainVideo>>, [duration |-> IntText(n)]) : n \in 0..MaxDur}

\* ffmpeg.probe of a path that does not exist fails.
ProbeFits(path, probe, f) == PathExists(path, f) \/ probe.failed

ExtractOutcomes == {"ok", "ffmpeg.Error"}

UrlArgs == {None, <<>>, <<"https://youtu.be/a">>}

Downloads ==
    {[failed |-> TRUE, id |-> None, merged |-> FALSE, ext |-> "mp4"]}
        \cup {[failed |-> FALSE, id |-> i, merged |-> TRUE, ext |-> "mp4"] :
                i \in {None, <<>>, <<"a">>}}
        \cup {[failed |-> FALSE, id |-> <<"a">>, merged |-> FALSE, ext |-> e] :
                e \in {"mp4", "webm"}}

DefaultFile == Append(StaticDir, <<"video", ".mp4">>)

(***************************************************************************)
(* The service: requests handled one after another.                        *)
(***************************************************************************)
NotProbed == [exc |-> "pending", msg |-> "", meta |-> NoMeta]

Init ==
    /\ fs \in {[files |-> F, dirs |-> {StaticDir, CacheDir} \cup D] :
                 F \in SUBSET {DefaultFile},
                 D \in SUBSET {Append(CacheDir, <<"cached_", "a">>)}}
    /\ served = {}
    /\ last = Base
    /\ probeIn = ProbeFailure
    /\ probeOut = NotProbed

Metadata ==
    \E video_id \in VideoIds, probe \in HandlerProbes :
        /\ ProbeFits(get_video_path(video_id, fs), probe, fs)
        /\ last' = metadata(video_id, probe, fs)
        /\ UNCHANGED <<fs, served, probeIn, probeOut>>

Thumbnail ==
    \E raw \in TimestampArgs, video_id \in ThumbnailIds,
       probe \in HandlerProbes, ex \in ExtractOutcomes :
        /\ ProbeFits(get_video_path(video_id, fs), probe, fs)
        /\ last' = thumbnail(raw, video_id, probe, ex, fs)
        /\ UNCHANGED <<fs, served, probeIn, probeOut>>

ServeVideo ==
    \E video_id \in VideoIds :
        /\ last' = serve_video(video_id, fs)
        /\ UNCHANGED <<fs, served, probeIn, probeOut>>

SetVideo ==
    \E youtube_url \in UrlArgs, dl \in Downloads :
        LET r == set_video(youtube_url, dl) IN
        /\ last' = r
        /\ fs' = IF r.calls = <<>> THEN fs ELSE Downloaded(dl, fs)
        /\ served' = IF r.resp.status = 200
                     THEN served \cup {r.resp.video_id} ELSE served
        /\ UNCHANGED <<probeIn, probeOut>>

Next == Metadata \/ Thumbnail \/ ServeVideo \/ SetVideo

Spec == Init /\ [][Next]_vars

(***************************************************************************)
(* get_video_metadata alone, applied to every outcome of ffmpeg.probe.     *)
(***************************************************************************)
InitProbe ==
    /\ fs = [files |-> {DefaultFile}, dirs |-> {StaticDir, CacheDir}]
    /\ served = {}
    /\ last = Base
    /\ probeIn \in ProbeInputs(MaxStreams)
    /\ probeOut = NotProbed

Probe ==
    /\ probeOut = NotProbed
    /\ probeOut' = get_video_metadata(probeIn)
    /\ UNCHANGED <<fs, served, last, probeIn>>

NextProbe == Probe

SpecProbe == InitProbe /\ [][NextProbe]_vars

(***************************************************************************)
(* Properties.                                                             *)
(***************************************************************************)
\* a <= b on the values a timestamp or a duration can take; false when
\* either is NaN.
FloatLe(a, b) == a.k # "nan" /\ b.k # "nan" /\ (a = b \/ FloatLt(a, b))

\* 0 <= t <= D
InRange(t, D) == FloatLe(Fin(0), t) /\ FloatLe(t, D)

\* The request handled last got as far as resolving its identifier.
Resolved ==
    /\ last.op \in {"metadata", "thumbnail", "video"}
    /\ Len(last.calls) >= 1
    /\ last.calls[1] = "resolve"

\* The request handled last got as far as probing the resolved file.
ProbedLast ==
    /\ last.op \in {"metadata", "thumbnail"}
    /\ Len(last.calls) >= 2
    /\ last.calls[2] = "probe"

OutOfBoundsResp ==
    Json(400, {"error"}, "Timestamp out of video duration bounds", "")

\* C1: the response of a /thumbnail request is decided by the first failing
\* check, in the order: timestamp missing or unparsable -> 400 'Missing
\* timestamp parameter'; non-empty video_id without a cache file -> 404;
\* probing fails -> 500 JSON with the probe diagnostics; timestamp outside
\* [0, duration] -> 400 'Timestamp out of video duration bounds'; otherwise
\* 200 image/png, or 500 JSON {error, details} when the extraction fails.
C1_ThumbnailFirstFailingCheck ==
    last.op = "thumbnail" =>
        IF last.ts = NoFloat
        THEN last.resp = Json(400, {"error"}, "Missing timestamp parameter", "")
        ELSE IF Truthy(last.video_id) /\ ~PathExists(CachePath(last.video_id), fs)
        THEN last.resp.status = 404
        ELSE IF last.probe_exc # "none"
        THEN /\ last.resp.status = 500
             /\ last.resp.type = "json"
             /\ last.resp.keys = {"error", "message"}
        ELSE IF ~InRange(last.ts, last.duration)
        THEN last.resp = OutOfBoundsResp
        ELSE IF last.extract = "ok"
        THEN last.resp.status = 200 /\ last.resp.type = "image/png"
        ELSE /\ last.resp.status = 500
             /\ last.resp.type = "json"
             /\ last.resp.keys = {"error", "details"}

\* C2: for a probed duration D and a parsed timestamp t, the extraction is
\* invoked exactly when 0 <= t <= D, and every other t is answered with the
\* out-of-bounds 400 error.
C2_ExtractOnlyInBounds ==
    (last.op = "thumbnail" /\ ProbedLast /\ last.probe_exc = "none") =>
        /\ ("extract" \in {last.calls[i] : i \in 1..Len(last.calls)})
              <=> InRange(last.ts, last.duration)
        /\ ~InRange(last.ts, last.duration) => last.resp = OutOfBoundsResp

\* C3: the path a request resolved is the default path for an absent or
\* empty identifier, whatever the filesystem holds, and for a non-empty
\* identifier i it is 'static/cache/cached_<i>.mp4' exactly when that path
\* exists at the time of the call, None otherwise.
C3_Reference(i, f) ==
    IF i = None \/ i = <<>> THEN <<"static", "/", "video", ".mp4">>
    ELSE LET p == <<"static", "/", "cache", "/", "cached_">> \o i \o <<".mp4">>
         IN IF PathExists(p, f) THEN p ELSE None

C4_ProbeFailureIsJson500 ==
    (ProbedLast /\ last.probe_exc # "none") =>
        /\ last.resp.status = 500
        /\ last.resp.type = "json"
        /\ last.resp.keys = {"error", "message"}
        /\ (last.probe_exc # "ProbeError"
              => last.resp.detail # "No video stream found")

InsideCache(path) ==
    LET loc == Location(path)
    IN Len(loc) > Len(CacheDir) /\ SubSeq(loc, 1, Len(CacheDir)) = CacheDir

C6_NoPathOutsideCache ==
    (Resolved /\ Truthy(last.video_id) /\ last.path # None)
        => InsideCache(last.path)

\* C9: once /set_video has answered 200 with video_id v, the cache path that
\* get_video_path computes for v exists, and no request with video_id = v is
\* answered with 404.
C9_ServedIdResolves ==
    /\ \A v \in served :
          PathExists(<<"static", "/", "cache", "/", "cached_">> \o v \o <<".mp4">>, fs)
    /\ (Resolved /\ last.video_id \in served) => last.resp.status # 404

\* C10: a /thumbnail request invokes resolve, probe and extract in this
\* order, each at most once; it does not probe when the identifier is not
\* found, does not extract unless the probe succeeded, and ends with the
\* failure of the probe or of the extraction without another attempt.
IsPrefix(p, q) == Len(p) <= Len(q) /\ SubSeq(q, 1, Len(p)) = p

C10_ThumbnailPipelineOrder ==
    last.op = "thumbnail" =>
        /\ IsPrefix(last.calls, <<"resolve", "probe", "extract">>)
        /\ (Truthy(last.video_id) /\ ~PathExists(CachePath(last.video_id), fs))
              => last.calls = <<"resolve">>
        /\ Len(last.calls) = 3 => last.probe_exc = "none"
        /\ (Len(last.calls) >= 2 /\ last.probe_exc # "none")
              => (last.calls = <<"resolve", "probe">> /\ last.resp.status = 500)
        /\ (Len(last.calls) >= 3 /\ last.extract # "ok")
              => (last.calls = <<"resolve", "probe", "extract">>
                    /\ last.resp.status = 500)

\* C10 witness: the extraction was reached and failed.
C10_Witness ==
    /\ last.op = "thumbnail"
    /\ last.calls = <<"resolve", "probe", "extract">>
    /\ last.extract = "ffmpeg.Error"
    /\ last.resp.status = 500

(***************************************************************************)
(* Properties of get_video_metadata (under SpecProbe).                     *)
(***************************************************************************)
ProbeDone == probeOut # NotProbed

\* The positions of the descriptors whose type is 'video'.
VideoPositions ==
    {i \in 1..Len(probeIn.streams) :
        "codec_type" \in DOMAIN probeIn.streams[i]
            /\ probeIn.streams[i]["codec_type"] = "video"}

FirstVideoStream ==
    probeIn.streams[CHOOSE i \in VideoPositions : \A j \in VideoPositions : i <= j]

\* C7: codec, width, height and frame rate come from the first descriptor of
\* type 'video', with the defaults 'unknown', 0 and 0; the other descriptors
\* do not affect the result; without a video descriptor the call fails with
\* ProbeError('No video stream found') and nothing else.
C7_FirstVideoStreamDecides ==
    (ProbeDone /\ ~probeIn.failed) =>
        IF VideoPositions = {}
        THEN probeOut.exc = "ProbeError" /\ probeOut.msg = "No video stream found"
        ELSE LET v == FirstVideoStream IN
             /\ probeOut = get_video_metadata(Probed(<<v>>, probeIn.format))
             /\ probeOut.exc = "none" =>
                   /\ probeOut.meta.codec =
                         (IF "codec_name" \in DOMAIN v THEN v["codec_name"]
                          ELSE "unknown")
                   /\ probeOut.meta.width =
                         (IF "width" \in DOMAIN v THEN v["width"] ELSE 0)
                   /\ probeOut.meta.height =
                         (IF "height" \in DOMAIN v THEN v["height"] ELSE 0)

\* The frame-rate text of the selected stream, '0/0' when it has none.
SelectedRate ==
    LET v == probeIn.streams[FirstVideo(probeIn.streams)]
    IN IF "r_frame_rate" \in DOMAIN v THEN v["r_frame_rate"]
       ELSE <<IntText(0), Slash, IntText(0)>>

\* The call selected a video stream whose frame-rate text reads 'n/d' and
\* found a duration it could parse.
RateCase ==
    /\ ProbeDone
    /\ ~probeIn.failed
    /\ FirstVideo(probeIn.streams) > 0
    /\ "duration" \in DOMAIN probeIn.format
    /\ probeIn.format["duration"].t = "int"
    /\ Len(SelectedRate) = 3
    /\ SelectedRate[1].t = "int"
    /\ SelectedRate[2] = Slash
    /\ SelectedRate[3].t = "int"

\* C8: for a frame-rate text 'n/d' (and the default '0/0') the framerate is
\* 0 when d is 0 and n / d otherwise, and the call raises no division fault:
\* '30/1' gives 30 and '0/0' gives 0.
C8_FramerateZeroGuard ==
    /\ ProbeDone => probeOut.exc # "ZeroDivisionError"
    /\ RateCase =>
          LET n == SelectedRate[1].v
              d == SelectedRate[3].v
              r == probeOut.meta.framerate
          IN /\ probeOut.exc = "none"
             /\ d = 0 => r = [num |-> 0, den |-> 1]
             /\ d # 0 => (r.den > 0 /\ r.num * d = n * r.den)
             /\ (n = 30 /\ d = 1) => r = [num |-> 30, den |-> 1]

\* C8 witness: a frame-rate text with a zero denominator and a non-zero
\* numerator was read, and the framerate is 0.
C8_Witness ==
    /\ RateCase
    /\ SelectedRate[1].v = 2
    /\ SelectedRate[3].v = 0
    /\ probeOut.exc = "none"
    /\ probeOut.meta.framerate = [num |-> 0, den |-> 1]

====
